---------------------------- MODULE Spec2Model ----------------------------
(***************************************************************************)
(* A model of the rct client library (github.com/mlnoga/rct): the datagram *)
(* builder and parser of the RCT wire protocol, the response cache and the *)
(* connection that ties them to a TCP socket.                              *)
(*                                                                         *)
(* Bytes are the integers 0..255.  An Identifier (uint32) is kept as the    *)
(* tuple of its four bytes, most significant first, so that id >> 24 is    *)
(* id[1] and id & 0xff is id[4]; a Datagram is the record [Cmd, Id, Data]. *)
(***************************************************************************)
EXTENDS Integers, Sequences, FiniteSets, TLC

VARIABLES
    \* ---- builder / parser exercised on their own (build.go, parse.go) ----
    cpc,        \* position of the codec run: "new", "built", "loaded", "parsed"
    dgIn,       \* the Datagram handed to Build
    builder,    \* DatagramBuilder: [buffer, crc]
    tparser,    \* the DatagramParser of the codec run: [buffer, length, pos, state]
    parsed,     \* what Parse returned: [dg, err]
    \* ---- Connection (connection.go, cache.go) ----
    conn,       \* c.conn: "nil", "live" (a socket that works), "dead" (a socket
                \* whose peer is gone: Write fails, Read fails once drained)
    cache,      \* c.cache: [entries, timeout], entries a map Identifier -> [dg, ts]
    mu,         \* c.mu: 0 when free, else the task holding it
    pc,         \* per task: "idle", "qrecv" (Query blocked in conn.Read),
                \* "rrecv" (Receive blocked in conn.Read), "qfail" and "rfail"
                \* (the same, the socket closed under it by Close)
    req,        \* per task: the identifier of the Query in progress
    now,        \* the clock read by time.Now / time.Since
    wire,       \* bytes the device has sent that conn.Read has not yet returned
    io,         \* what the last operation begun did on the socket and returned
    \* ---- the byte stream fed to the receive path ----
    scn,        \* the stream being delivered: [g1, A, flip, g2, B]
    emitted,    \* the datagrams Receive has returned without error, in order
    \* ---- Broker (broker.go) ----
    publishCh,  \* b.publishCh: the messages buffered, oldest first
    subCh,      \* b.subCh: the queues whose subscription is buffered
    unsubCh,    \* b.unsubCh: the queues whose unsubscription is buffered
    subs,       \* the set subs of Broker.Start
    queue,      \* per subscriber queue (a chan T of capacity 5): its contents
    chState,    \* per subscriber queue: "none" (not made), "open", "closed"
    ctx,        \* whether the context of Broker.Start is cancelled
    bpc,        \* Broker.Start: "select" (in the loop), "done" (returned),
                \* "panic" (a send on, or a close of, a closed queue)
    cst,        \* per queue, its owner: "new", "subscribed", or how it has
                \* unsubscribed: "unsubscribed", "matched", "timeout", "sendfail"
    published,  \* the messages of the Publish calls that returned, in order
    taken,      \* per queue: the messages its owner has taken from it, in order
    pubSubs,    \* per message buffered in publishCh: the queues whose
                \* Subscribe had returned when Publish was called
    \* ---- Cache used on its own (cache.go) ----
    puts,       \* the datagrams of the Put calls made, in order
    got,        \* the last Get call: [id, dg, ok]
    \* ---- typed accessors used on their own (datagram.go, connection.go) ----
    acc,        \* the accessor call in hand: [kind, via, q, val, err]
    \* ---- the loop of Parse followed byte by byte (parse.go) ----
    pin,        \* the bytes of the buffer the loop has not read yet
    ps          \* the local variables of Parse: [state, escaped, crc, ...]

codecVars == <<cpc, dgIn, builder, tparser, parsed>>

connVars == <<conn, cache, mu, pc, req, now, wire, io>>

streamVars == <<scn, emitted>>

brokerVars == <<publishCh, subCh, unsubCh, subs, queue, chState, ctx, bpc, cst,
                published, taken, pubSubs>>

cacheLogVars == <<puts, got>>

accessVars == <<acc>>

loopVars == <<pin, ps>>

restVars == <<brokerVars, cacheLogVars, accessVars, loopVars>>

vars == <<cpc, dgIn, builder, tparser, parsed,
          conn, cache, mu, pc, req, now, wire, io, scn, emitted,
          publishCh, subCh, unsubCh, subs, queue, chState, ctx, bpc, cst,
          published, taken, pubSubs, puts, got, acc, pin, ps>>

-----------------------------------------------------------------------------
(* Protocol bytes and commands (datagram.go, build.go, parse.go)            *)

START == 43
ESCAPE == 45

Read == 1
Write == 2
LongWrite == 3
Reserved1 == 4
Response == 5
LongResponse == 6
Reserved2 == 7
ReadPeriodically == 8
Extension == 59

DefinedCommands ==
    {Read, Write, LongWrite, Reserved1, Response, LongResponse, Reserved2,
     ReadPeriodically, Extension}

\* Parser states, in the order of the iota block of parse.go
AwaitingStart == "AwaitingStart"
AwaitingCmd == "AwaitingCmd"
AwaitingLen == "AwaitingLen"
AwaitingId0 == "AwaitingId0"
AwaitingId1 == "AwaitingId1"
AwaitingId2 == "AwaitingId2"
AwaitingId3 == "AwaitingId3"
AwaitingData == "AwaitingData"
AwaitingCrc0 == "AwaitingCrc0"
AwaitingCrc1 == "AwaitingCrc1"
Done == "Done"

\* The zero Datagram, &Datagram{} (Data nil is modelled as the empty sequence)
ZeroId == <<0, 0, 0, 0>>

ZeroDatagram == [Cmd |-> 0, Id |-> ZeroId, Data |-> <<>>]

\* identifiers of datagram.go used by the tests of the builder
BatteryPowerW == <<64, 15, 1, 91>>
InverterACPowerW == <<219, 45, 105, 174>>

Datagram(cmd, id, data) == [Cmd |-> cmd, Id |-> id, Data |-> data]

-----------------------------------------------------------------------------
(* CRC (crc.go is not part of the sources at hand; modelled from the       *)
(* description of the checksum: CRC-CCITT, polynomial 0x1021, initial      *)
(* value 0xFFFF, most significant bit first, zero-padded to an even count) *)

CRCPolynomial == 4129
CRCInitial == 65535

\* x XOR p for a single-bit p
FlipBit(x, p) == IF (x \div p) % 2 = 1 THEN x - p ELSE x + p

\* x XOR 0x1021 on 16 bits: the polynomial has the bits 12, 5 and 0
XorPolynomial(x) ==
    FlipBit(FlipBit(FlipBit(x, CRCPolynomial % 32),
                    (CRCPolynomial % 4096) - (CRCPolynomial % 32)),
            CRCPolynomial - (CRCPolynomial % 4096))

\* one bit of the byte folded into the accumulator
CRC_Bit(crc, bit) ==
    LET c15 == crc \div 32768
        sh  == (crc * 2) % 65536
    IN  IF c15 # bit THEN XorPolynomial(sh) ELSE sh

RECURSIVE CRC_Bits(_, _, _)
CRC_Bits(crc, b, i) ==
    IF i = 8 THEN crc
    ELSE CRC_Bits(CRC_Bit(crc, (b \div (2 ^ (7 - i))) % 2), b, i + 1)

\* the zero value CRC{} that Parse starts from
ZeroCRC == [crc |-> 0, isOdd |-> FALSE]

CRC_Reset(c) == [crc |-> CRCInitial, isOdd |-> FALSE]

NewCRC == CRC_Reset(ZeroCRC)

\* the parity flag is read first, the accumulator is folded after it
CRC_Update(c, b) ==
    IF c.isOdd THEN [crc |-> CRC_Bits(c.crc, b, 0), isOdd |-> FALSE]
    ELSE [crc |-> CRC_Bits(c.crc, b, 0), isOdd |-> TRUE]

\* Get pads with one zero byte when an odd number of bytes went in; the
\* padding is an Update like any other, so Get changes the accumulator.
CRC_Finish(c) == IF c.isOdd THEN CRC_Update(c, 0) ELSE c

CRC_Get(c) == CRC_Finish(c).crc

-----------------------------------------------------------------------------
(* DatagramBuilder (build.go)                                               *)

NewDatagramBuilder == [buffer |-> <<>>, crc |-> NewCRC]

Builder_Reset(rdb) == [buffer |-> <<>>, crc |-> CRC_Reset(rdb.crc)]

\* a plausible slip: the escape byte is folded into the checksum as well
WriteByte_CrcOfEscape(rdb, b) ==
    IF b = START \/ b = ESCAPE
    THEN [buffer |-> rdb.buffer \o <<ESCAPE, b>>,
          crc    |-> CRC_Update(CRC_Update(rdb.crc, ESCAPE), b)]
    ELSE [buffer |-> Append(rdb.buffer, b), crc |-> CRC_Update(rdb.crc, b)]

\* a plausible slip: only the start marker is escaped
WriteByte_NoEscapeOfEscape(rdb, b) ==
    [buffer |-> IF b = START THEN rdb.buffer \o <<ESCAPE, b>>
                ELSE Append(rdb.buffer, b),
     crc    |-> CRC_Update(rdb.crc, b)]

WriteByte(rdb, b) ==
    [buffer |-> IF b = START \/ b = ESCAPE
                THEN rdb.buffer \o <<ESCAPE, b>>
                ELSE Append(rdb.buffer, b),
     crc    |-> CRC_Update(rdb.crc, b)]

WriteByteUnescapedNoCRC(rdb, b) ==
    [buffer |-> Append(rdb.buffer, b), crc |-> rdb.crc]

WriteCRC(rdb) ==
    LET fin == CRC_Finish(rdb.crc)
    IN  [buffer |-> rdb.buffer \o <<fin.crc \div 256, fin.crc % 256>>,
         crc    |-> fin]

RECURSIVE WriteBytes(_, _, _)
WriteBytes(rdb, data, i) ==
    IF i > Len(data) THEN rdb
    ELSE WriteBytes(WriteByte(rdb, data[i]), data, i + 1)

\* the four identifier bytes, most significant first
IdBytes(id) == <<id[1], id[2], id[3], id[4]>>

\* cmd, length and identifier, as Build writes them before the payload
HeaderBytes(dg) ==
    <<dg.Cmd % 256, (Len(dg.Data) + 4) % 256>> \o IdBytes(dg.Id)

Build(rdb, dg) ==
    LET r0 == Builder_Reset(rdb)
        r1 == WriteByteUnescapedNoCRC(r0, START)
        r2 == WriteBytes(r1, HeaderBytes(dg), 1)
        r3 == WriteBytes(r2, dg.Data, 1)
    IN  WriteCRC(r3)

Bytes(rdb) == rdb.buffer

-----------------------------------------------------------------------------
(* DatagramParser (parse.go)                                                *)

\* the buffer is kept as the bytes of the last transmission; the 1024 byte
\* array behind it only bounds how much one Read can deliver
ParserBufferSize == 1024

NewDatagramParser ==
    [buffer |-> <<>>, length |-> 0, pos |-> 0, state |-> AwaitingStart]

Parser_Reset(p) ==
    [buffer |-> p.buffer, length |-> 0, pos |-> 0, state |-> AwaitingStart]

\* the local variables of Parse before the first byte
ParseStart ==
    [state |-> AwaitingStart, escaped |-> FALSE, crc |-> ZeroCRC,
     length |-> 0, dataLength |-> 0, crcReceived |-> 0, dg |-> ZeroDatagram]

\* a plausible slip: a command above ReadPeriodically is taken as well
AcceptsCommand_Any(cmd) == TRUE

\* the test of state AwaitingCmd
AcceptsCommand(cmd) == cmd <= ReadPeriodically \/ cmd = Extension

\* a plausible slip: the received checksum is not compared
CrcMatches_Always(calculated, received) == TRUE

\* the test of state AwaitingCrc1
CrcMatches(calculated, received) == calculated = received

\* a plausible slip: a length below 4 gives no payload instead of wrapping
DataLength_NoWrap(length) == IF length < 4 THEN 0 ELSE length - 4

\* dataLength = length - 4, both uint8
DataLength(length) == (length - 4) % 256

\* the switch statement: byte b dispatched to the current state
Dispatch(s, b) ==
    CASE s.state = AwaitingStart ->
            IF b = START THEN [s EXCEPT !.state = AwaitingCmd] ELSE s
      [] s.state = AwaitingCmd ->
            [s EXCEPT !.crc = CRC_Update(CRC_Reset(s.crc), b),
                      !.dg.Cmd = b,
                      !.state = IF AcceptsCommand(b) THEN AwaitingLen
                                ELSE AwaitingStart]
      [] s.state = AwaitingLen ->
            [s EXCEPT !.crc = CRC_Update(s.crc, b),
                      !.length = b,
                      !.dataLength = DataLength(b),
                      !.state = AwaitingId0]
      [] s.state = AwaitingId0 ->
            [s EXCEPT !.crc = CRC_Update(s.crc, b),
                      !.dg.Id = <<b, 0, 0, 0>>,
                      !.state = AwaitingId1]
      [] s.state = AwaitingId1 ->
            \* the bits below 24 are zero after AwaitingId0, so |= sets them
            [s EXCEPT !.crc = CRC_Update(s.crc, b),
                      !.dg.Id[2] = b,
                      !.state = AwaitingId2]
      [] s.state = AwaitingId2 ->
            [s EXCEPT !.crc = CRC_Update(s.crc, b),
                      !.dg.Id[3] = b,
                      !.state = AwaitingId3]
      [] s.state = AwaitingId3 ->
            [s EXCEPT !.crc = CRC_Update(s.crc, b),
                      !.dg.Id[4] = b,
                      !.dg.Data = <<>>,
                      !.state = IF s.dataLength > 0 THEN AwaitingData
                                ELSE AwaitingCrc0]
      [] s.state = AwaitingData ->
            [s EXCEPT !.crc = CRC_Update(s.crc, b),
                      !.dg.Data = Append(s.dg.Data, b),
                      !.state = IF Len(s.dg.Data) + 1 >= s.dataLength
                                THEN AwaitingCrc0 ELSE AwaitingData]
      [] s.state = AwaitingCrc0 ->
            [s EXCEPT !.crcReceived = b * 256, !.state = AwaitingCrc1]
      [] s.state = AwaitingCrc1 ->
            LET fin == CRC_Finish(s.crc)
                rec == s.crcReceived + b
            IN  [s EXCEPT !.crc = fin,
                          !.crcReceived = rec,
                          !.state = IF CrcMatches(fin.crc, rec) THEN Done
                                    ELSE AwaitingStart]
      [] OTHER -> s  \* Done: ignore extra bytes

\* a plausible slip: an escaped start marker restarts the frame as well
ParseByte_StartAlways(s, b) ==
    IF b = START THEN [s EXCEPT !.state = AwaitingCmd, !.escaped = FALSE]
    ELSE IF ~s.escaped /\ b = ESCAPE THEN [s EXCEPT !.escaped = TRUE]
    ELSE Dispatch([s EXCEPT !.escaped = FALSE], b)

\* a plausible slip: a start marker in the middle of a frame is dispatched
\* to the current state like any byte
ParseByte_StartOnlyWhenAwaited(s, b) ==
    IF ~s.escaped
    THEN IF b = START /\ s.state = AwaitingStart THEN [s EXCEPT !.state = AwaitingCmd]
         ELSE IF b = ESCAPE THEN [s EXCEPT !.escaped = TRUE]
         ELSE Dispatch(s, b)
    ELSE Dispatch([s EXCEPT !.escaped = FALSE], b)

\* a plausible slip: once a frame is complete no byte is looked at any more
ParseByte_DoneIgnoresAll(s, b) ==
    IF s.state = Done THEN s
    ELSE IF ~s.escaped
    THEN IF b = START THEN [s EXCEPT !.state = AwaitingCmd]
         ELSE IF b = ESCAPE THEN [s EXCEPT !.escaped = TRUE]
         ELSE Dispatch(s, b)
    ELSE Dispatch([s EXCEPT !.escaped = FALSE], b)

\* one iteration of the loop of Parse
ParseByte(s, b) ==
    IF ~s.escaped
    THEN IF b = START THEN [s EXCEPT !.state = AwaitingCmd]
         ELSE IF b = ESCAPE THEN [s EXCEPT !.escaped = TRUE]
         ELSE Dispatch(s, b)
    ELSE Dispatch([s EXCEPT !.escaped = FALSE], b)

RECURSIVE ParseBytes(_, _, _)
ParseBytes(s, bytes, i) ==
    IF i > Len(bytes) THEN s
    ELSE ParseBytes(ParseByte(s, bytes[i]), bytes, i + 1)

\* buffer[pos : length-pos]
ParseWindow(p) == SubSeq(p.buffer, p.pos + 1, p.length - p.pos)

\* Parse returns the datagram and whether it returns an error
Parse(p) ==
    LET s == ParseBytes(ParseStart, ParseWindow(p), 1)
    IN  [dg |-> s.dg, err |-> s.state # Done, state |-> s.state]

\* Parse has not been called
LoopNone ==
    /\ pin = <<>>
    /\ ps = ParseStart

-----------------------------------------------------------------------------
(* Typed accessors of a Datagram (datagram.go) and the typed queries of a  *)
(* Connection (connection.go).  A call returns [val, err].  The value is   *)
(* kept as a tuple: <<sign, exponent, mantissa>> for a float32, the bits   *)
(* math.Float32frombits reinterprets, and <<n>> for an integer.            *)
(***************************************************************************)
NoError == "none"

InvalidDataLength == "invalid data length"

\* math.Float32frombits(binary.BigEndian.Uint32(b)): 1 sign bit, 8 exponent
\* bits, 23 mantissa bits
Float32frombits(b) ==
    <<b[1] \div 128,
      (b[1] % 128) * 2 + b[2] \div 128,
      (b[2] % 128) * 65536 + b[3] * 256 + b[4]>>

\* int32(binary.BigEndian.Uint32(b)): two's complement
Int32frombits(b) ==
    <<(IF b[1] >= 128 THEN b[1] - 256 ELSE b[1]) * 16777216
        + b[2] * 65536 + b[3] * 256 + b[4]>>

Datagram_Float32(d) ==
    IF Len(d.Data) # 4
    THEN [val |-> <<0, 0, 0>>, err |-> InvalidDataLength]
    ELSE [val |-> Float32frombits(d.Data), err |-> NoError]

Datagram_Int32(d) ==
    IF Len(d.Data) # 4
    THEN [val |-> <<0>>, err |-> InvalidDataLength]
    ELSE [val |-> Int32frombits(d.Data), err |-> NoError]

\* a plausible slip: a payload longer than the value is cut to its size
Datagram_Uint16_Truncates(d) ==
    IF Len(d.Data) < 2
    THEN [val |-> <<0>>, err |-> InvalidDataLength]
    ELSE [val |-> <<d.Data[1] * 256 + d.Data[2]>>, err |-> NoError]

Datagram_Uint16(d) ==
    IF Len(d.Data) # 2
    THEN [val |-> <<0>>, err |-> InvalidDataLength]
    ELSE [val |-> <<d.Data[1] * 256 + d.Data[2]>>, err |-> NoError]

Datagram_Uint8(d) ==
    IF Len(d.Data) # 1
    THEN [val |-> <<0>>, err |-> InvalidDataLength]
    ELSE [val |-> <<d.Data[1]>>, err |-> NoError]

\* QueryFloat32, QueryUint16, QueryUint8: q is what Query returned, [dg, err]
QueryFloat32(q) ==
    IF q.err # NoError THEN [val |-> <<0, 0, 0>>, err |-> q.err]
    ELSE Datagram_Float32(q.dg)

QueryUint16(q) ==
    IF q.err # NoError THEN [val |-> <<0>>, err |-> q.err]
    ELSE Datagram_Uint16(q.dg)

QueryUint8(q) ==
    IF q.err # NoError THEN [val |-> <<0>>, err |-> q.err]
    ELSE Datagram_Uint8(q.dg)

NoAccess ==
    [kind |-> "none", via |-> "none",
     q |-> [dg |-> ZeroDatagram, err |-> NoError], val |-> <<>>, err |-> NoError]

AccessNone == acc = NoAccess

-----------------------------------------------------------------------------
(* Cache (cache.go)                                                         *)

CacheTimeout == 1

NewCache(timeout) == [entries |-> <<>>, timeout |-> timeout]

\* a plausible slip: an entry is returned however old it is
Cache_Get_IgnoresTimeout(c, i, t) ==
    IF i \notin DOMAIN c.entries THEN [dg |-> ZeroDatagram, ok |-> FALSE]
    ELSE [dg |-> c.entries[i].dg, ok |-> TRUE]

\* a plausible slip: an entry as old as the timeout is refused already
Cache_Get_ExpiresAtTimeout(c, i, t) ==
    IF i \notin DOMAIN c.entries THEN [dg |-> ZeroDatagram, ok |-> FALSE]
    ELSE IF c.timeout <= t - c.entries[i].ts
         THEN [dg |-> ZeroDatagram, ok |-> FALSE]
         ELSE [dg |-> c.entries[i].dg, ok |-> TRUE]

\* Cache.Get at time t; time.Since(entry.ts) is t - entry.ts
Cache_Get(c, i, t) ==
    IF i \notin DOMAIN c.entries THEN [dg |-> ZeroDatagram, ok |-> FALSE]
    ELSE IF c.timeout < t - c.entries[i].ts
         THEN [dg |-> ZeroDatagram, ok |-> FALSE]
         ELSE [dg |-> c.entries[i].dg, ok |-> TRUE]

\* a plausible slip: an entry already there is kept
Cache_Put_KeepsFirst(c, dg, t) ==
    [c EXCEPT !.entries = c.entries @@ (dg.Id :> [dg |-> dg, ts |-> t])]

\* Cache.Put at time t
Cache_Put(c, dg, t) ==
    [c EXCEPT !.entries = (dg.Id :> [dg |-> dg, ts |-> t]) @@ c.entries]

-----------------------------------------------------------------------------
(* Connection (connection.go)                                               *)

\* connect: c.conn, err = net.DialTimeout(...); a failed dial leaves nil
connect(dialOk) == IF dialOk THEN "live" ELSE "nil"

\* a plausible slip: no socket, no dial: send gives up at once
send_NoDial(cn, frame, dial1, dial2) ==
    IF cn = "nil"
    THEN [conn |-> "nil", err |-> "dial", dials |-> 0, writes |-> <<>>, fresh |-> FALSE]
    ELSE IF cn = "live"
    THEN [conn |-> "live", err |-> "none", dials |-> 0, writes |-> <<frame>>,
          fresh |-> FALSE]
    ELSE IF ~dial2
    THEN [conn |-> "nil", err |-> "dial", dials |-> 1, writes |-> <<>>, fresh |-> FALSE]
    ELSE [conn |-> "live", err |-> "none", dials |-> 1, writes |-> <<frame>>,
          fresh |-> TRUE]

\* a plausible slip: a failed write is not retried: the socket is closed,
\* the handle cleared and the write error returned
send_NoRetry(cn, frame, dial1, dial2) ==
    IF cn = "nil" /\ connect(dial1) = "nil"
    THEN [conn |-> "nil", err |-> "dial", dials |-> 1, writes |-> <<>>, fresh |-> FALSE]
    ELSE IF cn = "dead"
    THEN [conn |-> "nil", err |-> "write", dials |-> 0, writes |-> <<>>, fresh |-> FALSE]
    ELSE [conn |-> "live", err |-> "none", dials |-> IF cn = "nil" THEN 1 ELSE 0,
          writes |-> <<frame>>, fresh |-> cn = "nil"]

\* send: dial when there is no socket, write, and on a failed write close,
\* dial again and write once more.  dial1 and dial2 are the outcomes of the
\* two dials; the result tells the socket left behind, the error returned,
\* the dials made, the frames that reached a socket and whether the socket
\* is a new one
send(cn, frame, dial1, dial2) ==
    IF cn = "nil" /\ connect(dial1) = "nil"
    THEN [conn |-> "nil", err |-> "dial", dials |-> 1, writes |-> <<>>, fresh |-> FALSE]
    ELSE LET first == IF cn = "nil" THEN connect(dial1) ELSE cn
             dialed == IF cn = "nil" THEN 1 ELSE 0
         IN  IF first = "live"
             THEN [conn |-> "live", err |-> "none", dials |-> dialed,
                   writes |-> <<frame>>, fresh |-> cn = "nil"]
             ELSE IF connect(dial2) = "nil"
             THEN [conn |-> "nil", err |-> "dial", dials |-> dialed + 1,
                   writes |-> <<>>, fresh |-> FALSE]
             ELSE [conn |-> connect(dial2), err |-> "none", dials |-> dialed + 1,
                   writes |-> <<frame>>, fresh |-> TRUE]

\* c.parser.Reset(); c.parser.length, err = c.conn.Read(c.parser.buffer);
\* c.parser.Parse().  Read overwrites the start of the buffer, Parse reads
\* no more than length bytes of it and keeps its position in local
\* variables, so nothing of the parser survives from one receive to the next
receive(chunk) ==
    Parse([Parser_Reset(NewDatagramParser) EXCEPT !.buffer = chunk,
                                                  !.length = Len(chunk)])

\* the sizes conn.Read can return when avail bytes are waiting
ReadSizes(avail) ==
    {n \in 1..avail : n <= ParserBufferSize}

\* a plausible slip: only the command of the answer is looked at
ValidResponse_CmdOnly(dg, id) == dg.Cmd = Response

\* a plausible slip: only the identifier of the answer is looked at
ValidResponse_IdOnly(dg, id) == dg.Id = id

\* Query's test of the datagram received
ValidResponse(dg, id) == ~(dg.Cmd # Response \/ dg.Id # id)

Tasks == {1, 2}

MaxTime == 2

QueryIds == {BatteryPowerW, InverterACPowerW}

WriteData == {<<1>>}

\* the datagram in the builder handed to Send
SendDatagram == Datagram(Write, BatteryPowerW, <<1>>)

\* builder := NewDatagramBuilder(); builder.Build(dg); builder.Bytes()
Frame(dg) == Bytes(Build(NewDatagramBuilder, dg))

\* the frames the tasks send, each with its datagram, built once
RequestFrames ==
    {<<dg, Frame(dg)>> :
        dg \in {Datagram(Read, id, <<>>) : id \in QueryIds}
                 \cup {Datagram(Write, id, data) : id \in QueryIds, data \in WriteData}
                 \cup {SendDatagram}}

FrameOf(dg) == (CHOOSE p \in RequestFrames : p[1] = dg)[2]

\* builder.Build(&Datagram{Read, id, nil}); builder.Bytes()
ReadRequest(id) == FrameOf(Datagram(Read, id, <<>>))

\* b.Build(&Datagram{Write, id, data}); b.Bytes()
WriteRequest(id, data) == FrameOf(Datagram(Write, id, data))

\* the frame with bit flip[2] of byte flip[1] flipped; flip[1] = 0: as it is
Corrupt(frame, flip) ==
    IF flip[1] = 0 THEN frame
    ELSE [frame EXCEPT ![flip[1]] = FlipBit(@, 2 ^ flip[2])]

\* what the device may put on the wire: answers to either identifier, a
\* frame that is no answer, a byte of noise, an answer with one payload bit
\* flipped on the way and a frame with a command code that does not exist
DeviceDatagrams ==
    {Datagram(Response, id, <<1>>) : id \in QueryIds}
        \cup {Datagram(Read, BatteryPowerW, <<>>)}

ChecksumMismatchFrame ==
    Corrupt(Frame(Datagram(Response, BatteryPowerW, <<1>>)), <<8, 0>>)

InvalidCommandFrame == Frame(Datagram(ReadPeriodically + 1, BatteryPowerW, <<1>>))

DeviceFrames ==
    {Frame(dg) : dg \in DeviceDatagrams}
        \cup {<<0>>, ChecksumMismatchFrame, InvalidCommandFrame}

\* the record of the last operation begun: which one, by which task, for
\* which identifier, the socket it found, the frames handed to send, the
\* dials made, the frames written to a socket, whether it has returned,
\* the error it returned and the datagram it returned without error
IoNone ==
    [op |-> "none", task |-> 0, id |-> ZeroId, had |-> "nil", phase |-> "returned",
     sends |-> <<>>, dials |-> 0, writes |-> <<>>, err |-> "none",
     dg |-> ZeroDatagram]

IoOf(op, t, id, had, phase, sends, s, err, dg) ==
    [op |-> op, task |-> t, id |-> id, had |-> had, phase |-> phase,
     sends |-> sends, dials |-> s.dials, writes |-> s.writes, err |-> err,
     dg |-> dg]

NoSend == [conn |-> "nil", err |-> "none", dials |-> 0, writes |-> <<>>, fresh |-> FALSE]

\* the Connection NewConnection returns: the first dial has succeeded
NewConnection ==
    /\ conn = "live"
    /\ cache = NewCache(CacheTimeout)
    /\ mu = 0
    /\ pc = [t \in Tasks |-> "idle"]
    /\ req = [t \in Tasks |-> ZeroId]
    /\ now = 0
    /\ wire = <<>>
    /\ io = IoNone

\* no stream is being delivered
NoScenario == [g1 |-> <<>>, A |-> ZeroDatagram, flip |-> <<0, 0>>, g2 |-> <<>>,
               B |-> ZeroDatagram, bytes |-> <<>>]

StreamNone ==
    /\ scn = NoScenario
    /\ emitted = <<>>

\* a plausible slip: the operation goes ahead whoever holds the mutex
Mutex_Lock_NoWait(m) == TRUE

\* c.mu.Lock() can return: no task holds the mutex
Mutex_Lock(m) == m = 0

\* the operations that take c.mu on entry and release it on return (Write
\* through Send)
HoldsMutex(op) == op \in {"Query", "Send", "Write", "Receive"}

\* Connection.Query up to the point where it returns or blocks in conn.Read
QueryBegin(t, id, dial1, dial2) ==
    /\ Mutex_Lock(mu)
    /\ pc[t] = "idle"
    /\ LET hit == Cache_Get(cache, id, now)
           frame == ReadRequest(id)
           s == send(conn, frame, dial1, dial2)
       IN  IF hit.ok
           THEN /\ io' = IoOf("Query", t, id, conn, "returned", <<>>, NoSend,
                              "none", hit.dg)
                /\ UNCHANGED <<conn, mu, pc, req, wire>>
           ELSE IF s.err # "none"
           THEN /\ io' = IoOf("Query", t, id, conn, "returned", <<frame>>, s,
                              s.err, ZeroDatagram)
                /\ conn' = s.conn
                /\ wire' = IF s.conn = "nil" THEN <<>> ELSE wire
                /\ UNCHANGED <<mu, pc, req>>
           ELSE /\ io' = IoOf("Query", t, id, conn, "blocked", <<frame>>, s,
                              "none", ZeroDatagram)
                /\ conn' = s.conn
                /\ wire' = IF s.fresh THEN <<>> ELSE wire
                /\ mu' = t
                /\ pc' = [pc EXCEPT ![t] = "qrecv"]
                /\ req' = [req EXCEPT ![t] = id]
    /\ UNCHANGED <<cache, now>>
    /\ UNCHANGED <<codecVars, streamVars>>
    /\ UNCHANGED restVars

\* conn.Read returns in Query: n bytes, or an error when the peer is gone
\* and nothing is left to read; the rest of receive and of Query follow
QueryReceive(t, n) ==
    /\ pc[t] = "qrecv"
    /\ IF wire = <<>>
       THEN /\ conn = "dead"
            /\ n = 0
            /\ io' = [io EXCEPT !.phase = "returned", !.err = "read"]
            /\ UNCHANGED <<cache, wire>>
       ELSE /\ n \in ReadSizes(Len(wire))
            /\ wire' = SubSeq(wire, n + 1, Len(wire))
            /\ LET r == receive(SubSeq(wire, 1, n))
               IN  IF r.err
                   THEN /\ io' = [io EXCEPT !.phase = "returned", !.err = "parse"]
                        /\ UNCHANGED cache
                   ELSE IF ~ValidResponse(r.dg, req[t])
                   THEN /\ io' = [io EXCEPT !.phase = "returned", !.err = "invalid"]
                        /\ UNCHANGED cache
                   ELSE /\ io' = [io EXCEPT !.phase = "returned", !.dg = r.dg]
                        /\ cache' = Cache_Put(cache, r.dg, now)
    /\ mu' = 0
    /\ pc' = [pc EXCEPT ![t] = "idle"]
    /\ req' = [req EXCEPT ![t] = ZeroId]
    /\ UNCHANGED <<conn, now>>
    /\ UNCHANGED <<codecVars, streamVars>>
    /\ UNCHANGED restVars

\* the body shared by Send and Write: lock, send, unlock
SendFrame(op, t, id, frame, dial1, dial2) ==
    /\ Mutex_Lock(mu)
    /\ pc[t] = "idle"
    /\ LET s == send(conn, frame, dial1, dial2)
       IN  /\ io' = IoOf(op, t, id, conn, "returned", <<frame>>, s, s.err,
                         ZeroDatagram)
           /\ conn' = s.conn
           /\ wire' = IF s.fresh \/ s.conn = "nil" THEN <<>> ELSE wire
    /\ UNCHANGED <<cache, mu, pc, req, now>>
    /\ UNCHANGED <<codecVars, streamVars>>
    /\ UNCHANGED restVars

\* Connection.Send with a builder that holds a built datagram
Send(t, dg, dial1, dial2) ==
    SendFrame("Send", t, dg.Id, FrameOf(dg), dial1, dial2)

\* Connection.Write
Connection_Write(t, id, data, dial1, dial2) ==
    SendFrame("Write", t, id, WriteRequest(id, data), dial1, dial2)

\* Connection.Receive up to the point where it returns or blocks in conn.Read
ReceiveBegin(t, dial1) ==
    /\ Mutex_Lock(mu)
    /\ pc[t] = "idle"
    /\ IF conn = "nil" /\ connect(dial1) = "nil"
       THEN /\ io' = [IoNone EXCEPT !.op = "Receive", !.task = t, !.had = conn,
                                    !.dials = 1, !.err = "dial"]
            /\ UNCHANGED <<conn, mu, pc, wire>>
       ELSE /\ io' = [IoNone EXCEPT !.op = "Receive", !.task = t, !.had = conn,
                                    !.dials = IF conn = "nil" THEN 1 ELSE 0,
                                    !.phase = "blocked"]
            /\ conn' = IF conn = "nil" THEN connect(dial1) ELSE conn
            /\ wire' = IF conn = "nil" THEN <<>> ELSE wire
            /\ mu' = t
            /\ pc' = [pc EXCEPT ![t] = "rrecv"]
    /\ UNCHANGED <<cache, req, now>>
    /\ UNCHANGED <<codecVars, streamVars>>
    /\ UNCHANGED restVars

\* conn.Read returns in Receive; the rest of receive follows.  While a
\* stream is being delivered the datagrams returned are logged in emitted
ReceiveReturn(t, n) ==
    /\ pc[t] = "rrecv"
    /\ IF wire = <<>>
       THEN /\ conn = "dead"
            /\ n = 0
            /\ io' = [io EXCEPT !.phase = "returned", !.err = "read"]
            /\ UNCHANGED <<wire, emitted>>
       ELSE /\ n \in ReadSizes(Len(wire))
            /\ wire' = SubSeq(wire, n + 1, Len(wire))
            /\ LET r == receive(SubSeq(wire, 1, n))
               IN  /\ io' = IF r.err
                            THEN [io EXCEPT !.phase = "returned", !.err = "parse"]
                            ELSE [io EXCEPT !.phase = "returned", !.dg = r.dg]
                   /\ emitted' = IF r.err \/ scn = NoScenario THEN emitted
                                  ELSE Append(emitted, r.dg)
    /\ mu' = 0
    /\ pc' = [pc EXCEPT ![t] = "idle"]
    /\ UNCHANGED <<conn, cache, req, now, scn>>
    /\ UNCHANGED codecVars
    /\ UNCHANGED restVars

\* Connection.Close: c.conn.Close(); c.conn = nil, without c.mu.  A Read
\* that another task has pending on the socket fails; with no socket
\* c.conn.Close() is a call on a nil interface, which panics
Close(t) ==
    /\ pc[t] = "idle"
    /\ IF conn = "nil"
       THEN /\ io' = [IoNone EXCEPT !.op = "Close", !.task = t, !.err = "panic"]
            /\ UNCHANGED <<conn, pc, wire>>
       ELSE /\ io' = [IoNone EXCEPT !.op = "Close", !.task = t, !.had = conn]
            /\ conn' = "nil"
            /\ wire' = <<>>
            /\ pc' = [u \in Tasks |->
                         IF pc[u] = "qrecv" THEN "qfail"
                         ELSE IF pc[u] = "rrecv" THEN "rfail" ELSE pc[u]]
    /\ UNCHANGED <<cache, mu, req, now>>
    /\ UNCHANGED <<codecVars, streamVars>>
    /\ UNCHANGED restVars

\* conn.Read returns its error in a Query or Receive whose socket was
\* closed by Close; the operation returns the error and unlocks
ReadClosed(t) ==
    /\ pc[t] \in {"qfail", "rfail"}
    /\ io' = [IoNone EXCEPT !.op = IF pc[t] = "qfail" THEN "Query" ELSE "Receive",
                            !.task = t, !.id = req[t], !.err = "read"]
    /\ mu' = 0
    /\ pc' = [pc EXCEPT ![t] = "idle"]
    /\ req' = [req EXCEPT ![t] = ZeroId]
    /\ UNCHANGED <<conn, cache, now, wire>>
    /\ UNCHANGED <<codecVars, streamVars>>
    /\ UNCHANGED restVars

\* the device sends a frame, asked for or not; one frame at a time is
\* in flight here, several frames in one read are the matter of SpecStream
DeviceRespond(f) ==
    /\ conn = "live"
    /\ wire = <<>>
    /\ wire' = f
    /\ UNCHANGED <<conn, cache, mu, pc, req, now, io>>
    /\ UNCHANGED <<codecVars, streamVars>>
    /\ UNCHANGED restVars

\* the peer goes away: the socket stays in c.conn but no longer works
BreakSocket ==
    /\ conn = "live"
    /\ conn' = "dead"
    /\ UNCHANGED <<cache, mu, pc, req, now, wire, io>>
    /\ UNCHANGED <<codecVars, streamVars>>
    /\ UNCHANGED restVars

\* time passes
Tick ==
    /\ now < MaxTime
    /\ now' = now + 1
    /\ UNCHANGED <<conn, cache, mu, pc, req, wire, io>>
    /\ UNCHANGED <<codecVars, streamVars>>
    /\ UNCHANGED restVars

\* the most bytes that wait unread in the socket: two answers
MaxUnread == 20

\* the answers of a device that answers every Read request with one
\* Response frame of the identifier asked for; the payload names the task
\* whose request is answered, so that an answer can be told from another
AnswerFrames ==
    {<<id, t, Frame(Datagram(Response, id, <<t>>))>> : id \in QueryIds, t \in Tasks}

\* the device answers the Read request that the Query of task t has
\* written: the frame arrives behind what is still unread in the socket
DeviceAnswer(t) ==
    /\ pc[t] = "qrecv"
    /\ io.op = "Query" /\ io.task = t /\ io.phase = "blocked"
    /\ conn = "live"
    /\ LET answer == (CHOOSE p \in AnswerFrames : p[1] = req[t] /\ p[2] = t)[3]
       IN  /\ Len(wire) + Len(answer) <= MaxUnread
           /\ wire' = wire \o answer
    /\ io' = [io EXCEPT !.phase = "answered"]
    /\ UNCHANGED <<conn, cache, mu, pc, req, now>>
    /\ UNCHANGED <<codecVars, streamVars>>
    /\ UNCHANGED restVars

-----------------------------------------------------------------------------
(* Broker (broker.go): the control loop of Start, and the calls Subscribe,  *)
(* Unsubscribe and Publish made by other tasks.  The three control channels *)
(* are buffered, so a call returns once its request is in the buffer; the   *)
(* select of the loop takes any case that is ready.                         *)

\* make(chan T, 1) of NewBroker
ControlCapacity == 1

\* make(chan T, 5) of Subscribe
QueueCapacity == 5

Queues == {1, 2}

MaxMsgs == 6

Msgs == 1..MaxMsgs

NewBroker ==
    /\ publishCh = <<>>
    /\ subCh = <<>>
    /\ unsubCh = <<>>

\* no queue exists, the loop of Start has just begun, nothing was published
BrokerNone ==
    /\ NewBroker
    /\ subs = {}
    /\ queue = [q \in Queues |-> <<>>]
    /\ chState = [q \in Queues |-> "none"]
    /\ ctx = FALSE
    /\ bpc = "select"
    /\ cst = [q \in Queues |-> "new"]
    /\ published = <<>>
    /\ taken = [q \in Queues |-> <<>>]
    /\ pubSubs = <<>>

NoGet == [id |-> ZeroId, dg |-> ZeroDatagram, ok |-> FALSE]

CacheLogNone ==
    /\ puts = <<>>
    /\ got = NoGet

\* a plausible slip: the message is put in front of the queue
Deliver_InFront(contents, msg) ==
    IF Len(contents) < QueueCapacity THEN <<msg>> \o contents ELSE contents

\* select { case msgCh <- msg: default: } on an open queue
Deliver(contents, msg) ==
    IF Len(contents) < QueueCapacity THEN Append(contents, msg) ELSE contents

\* Subscribe: msgCh := make(chan T, 5); b.subCh <- msgCh
Subscribe(q) ==
    /\ bpc # "panic"
    /\ cst[q] = "new"
    /\ Len(subCh) < ControlCapacity
    /\ chState' = [chState EXCEPT ![q] = "open"]
    /\ subCh' = Append(subCh, q)
    /\ cst' = [cst EXCEPT ![q] = "subscribed"]
    /\ UNCHANGED <<publishCh, unsubCh, subs, queue, ctx, bpc, published, taken>>
    /\ UNCHANGED <<pubSubs, codecVars, connVars, streamVars, cacheLogVars, accessVars, loopVars>>

\* the body of Unsubscribe: b.unsubCh <- msgCh; how tells how the owner
\* came to unsubscribe
UnsubscribeAs(q, how) ==
    /\ bpc # "panic"
    /\ cst[q] = "subscribed"
    /\ Len(unsubCh) < ControlCapacity
    /\ unsubCh' = Append(unsubCh, q)
    /\ cst' = [cst EXCEPT ![q] = how]
    /\ UNCHANGED <<publishCh, subCh, subs, queue, chState, ctx, bpc, published,
                   taken>>
    /\ UNCHANGED <<pubSubs, codecVars, connVars, streamVars, cacheLogVars, accessVars, loopVars>>

\* Unsubscribe called by a subscriber of its own
Unsubscribe(q) == UnsubscribeAs(q, "unsubscribed")

\* the exit of a Query that has subscribed (connection code that is not
\* among the sources, after the description of Query): it always
\* unsubscribes, after a matching response was taken from the queue, after
\* the timeout, or after Send failed
QueryExit(q, how) ==
    /\ how \in {"matched", "timeout", "sendfail"}
    /\ how = "matched" => taken[q] # <<>>
    /\ how = "sendfail" => taken[q] = <<>>
    /\ UnsubscribeAs(q, how)

\* Publish: b.publishCh <- msg, by the one publisher
Publish(msg) ==
    /\ bpc # "panic"
    /\ msg = Len(published) + 1
    /\ Len(publishCh) < ControlCapacity
    /\ publishCh' = Append(publishCh, msg)
    /\ published' = Append(published, msg)
    /\ pubSubs' = Append(pubSubs, {q \in Queues : cst[q] = "subscribed"})
    /\ UNCHANGED <<subCh, unsubCh, subs, queue, chState, ctx, bpc, cst, taken>>
    /\ UNCHANGED <<codecVars, connVars, streamVars, cacheLogVars, accessVars, loopVars>>

\* the owner of a queue receives from it; a closed queue still hands out
\* what it holds
Take(q) ==
    /\ bpc # "panic"
    /\ chState[q] # "none"
    /\ queue[q] # <<>>
    /\ taken' = [taken EXCEPT ![q] = Append(@, Head(queue[q]))]
    /\ queue' = [queue EXCEPT ![q] = Tail(@)]
    /\ UNCHANGED <<publishCh, subCh, unsubCh, subs, chState, ctx, bpc, cst,
                   published>>
    /\ UNCHANGED <<pubSubs, codecVars, connVars, streamVars, cacheLogVars, accessVars, loopVars>>

\* the context is cancelled
Cancel ==
    /\ bpc # "panic"
    /\ ~ctx
    /\ ctx' = TRUE
    /\ UNCHANGED <<publishCh, subCh, unsubCh, subs, queue, chState, bpc, cst,
                   published, taken>>
    /\ UNCHANGED <<pubSubs, codecVars, connVars, streamVars, cacheLogVars, accessVars, loopVars>>

\* case <-ctx.Done(): return
BrokerDone ==
    /\ bpc = "select"
    /\ ctx
    /\ bpc' = "done"
    /\ UNCHANGED <<publishCh, subCh, unsubCh, subs, queue, chState, ctx, cst,
                   published, taken>>
    /\ UNCHANGED <<pubSubs, codecVars, connVars, streamVars, cacheLogVars, accessVars, loopVars>>

\* case msgCh := <-b.subCh: subs[msgCh] = struct{}{}
BrokerSubscribe ==
    /\ bpc = "select"
    /\ subCh # <<>>
    /\ subs' = subs \cup {Head(subCh)}
    /\ subCh' = Tail(subCh)
    /\ UNCHANGED <<publishCh, unsubCh, queue, chState, ctx, bpc, cst, published,
                   taken>>
    /\ UNCHANGED <<pubSubs, codecVars, connVars, streamVars, cacheLogVars, accessVars, loopVars>>

\* case msgCh := <-b.unsubCh: delete(subs, msgCh); close(msgCh); closing a
\* closed channel panics
BrokerUnsubscribe ==
    /\ bpc = "select"
    /\ unsubCh # <<>>
    /\ subs' = subs \ {Head(unsubCh)}
    /\ unsubCh' = Tail(unsubCh)
    /\ IF chState[Head(unsubCh)] = "closed"
       THEN bpc' = "panic" /\ UNCHANGED chState
       ELSE chState' = [chState EXCEPT ![Head(unsubCh)] = "closed"] /\ UNCHANGED bpc
    /\ UNCHANGED <<publishCh, subCh, queue, ctx, cst, published, taken>>
    /\ UNCHANGED <<pubSubs, codecVars, connVars, streamVars, cacheLogVars, accessVars, loopVars>>

\* case msg := <-b.publishCh: for msgCh := range subs { select { case
\* msgCh <- msg: default: } }.  A send on a closed channel panics; the
\* range visits subs in no fixed order, so the queues in reached have been
\* served before the panic
BrokerPublish(reached) ==
    /\ bpc = "select"
    /\ publishCh # <<>>
    /\ publishCh' = Tail(publishCh)
    /\ IF \E q \in subs : chState[q] = "closed"
       THEN /\ reached \subseteq {q \in subs : chState[q] # "closed"}
            /\ queue' = [q \in Queues |->
                            IF q \in reached THEN Deliver(queue[q], Head(publishCh))
                            ELSE queue[q]]
            /\ bpc' = "panic"
       ELSE /\ reached = subs
            /\ queue' = [q \in Queues |->
                            IF q \in subs THEN Deliver(queue[q], Head(publishCh))
                            ELSE queue[q]]
            /\ UNCHANGED bpc
    /\ pubSubs' = Tail(pubSubs)
    /\ UNCHANGED <<subCh, unsubCh, subs, chState, ctx, cst, published, taken>>
    /\ UNCHANGED <<codecVars, connVars, streamVars, cacheLogVars, accessVars, loopVars>>

-----------------------------------------------------------------------------
(* The codec on its own: a datagram is built, the bytes are handed to a    *)
(* parser and parsed, as TestBuilder and TestBuilderParser do.             *)

MaxData == 2
MaxPreWrite == 1

ByteValues == {0, START, ESCAPE}

CodecCommands == DefinedCommands \cup {0, 9, START}

CodecIds ==
    {BatteryPowerW, InverterACPowerW, <<2, 1, 1, 0>>}
        \cup {<<0, b, c, d>> : b \in ByteValues, c \in ByteValues, d \in ByteValues}

RECURSIVE SeqsUpTo(_, _)
SeqsUpTo(S, n) ==
    IF n = 0 THEN {<<>>}
    ELSE LET shorter == SeqsUpTo(S, n - 1)
         IN  shorter \cup {Append(q, x) : q \in shorter, x \in S}

CodecDatagrams ==
    {Datagram(c, i, d) : c \in CodecCommands, i \in CodecIds,
                         d \in SeqsUpTo(ByteValues, MaxData)}

NoResult == [dg |-> ZeroDatagram, err |-> FALSE, state |-> AwaitingStart]

CodecIdle ==
    /\ cpc = "new"
    /\ dgIn = ZeroDatagram
    /\ builder = NewDatagramBuilder
    /\ tparser = NewDatagramParser
    /\ parsed = NoResult

CodecInit ==
    CodecIdle /\ NewConnection /\ StreamNone /\ BrokerNone /\ CacheLogNone /\ AccessNone /\ LoopNone

\* DatagramBuilder.WriteByte called on its own
BuilderWriteByte(b) ==
    /\ cpc = "new"
    /\ Len(builder.buffer) < MaxPreWrite
    /\ builder' = WriteByte(builder, b)
    /\ UNCHANGED <<cpc, dgIn, tparser, parsed>>
    /\ UNCHANGED <<connVars, streamVars>>
    /\ UNCHANGED restVars

\* DatagramBuilder.Build
BuilderBuild(dg) ==
    /\ cpc = "new"
    /\ builder' = Build(builder, dg)
    /\ dgIn' = dg
    /\ cpc' = "built"
    /\ UNCHANGED <<tparser, parsed>>
    /\ UNCHANGED <<connVars, streamVars>>
    /\ UNCHANGED restVars

\* parser.Reset(); parser.buffer = builder.Bytes(); parser.length = len(...)
ParserLoad ==
    /\ cpc = "built"
    /\ tparser' = [Parser_Reset(tparser) EXCEPT !.buffer = Bytes(builder),
                                                !.length = Len(Bytes(builder))]
    /\ cpc' = "loaded"
    /\ UNCHANGED <<dgIn, builder, parsed>>
    /\ UNCHANGED <<connVars, streamVars>>
    /\ UNCHANGED restVars

\* DatagramParser.Parse
ParserParse ==
    /\ cpc = "loaded"
    /\ parsed' = Parse(tparser)
    /\ cpc' = "parsed"
    /\ UNCHANGED <<dgIn, builder, tparser>>
    /\ UNCHANGED <<connVars, streamVars>>
    /\ UNCHANGED restVars

CodecNext ==
    \/ \E b \in ByteValues : BuilderWriteByte(b)
    \/ \E dg \in CodecDatagrams : BuilderBuild(dg)
    \/ ParserLoad
    \/ ParserParse

SpecCodec == CodecInit /\ [][CodecNext]_vars

-----------------------------------------------------------------------------
(* Properties of the codec                                                  *)

\* C1: for every datagram with a defined command, parsing the bytes that
\* Build produced returns no error and the same command, identifier and
\* payload, also when a logical byte or a checksum byte is 0x2B or 0x2D.
C1_RoundTrip ==
    (cpc = "parsed" /\ dgIn.Cmd \in DefinedCommands /\ Len(dgIn.Data) <= 251)
        => (~parsed.err /\ parsed.dg = dgIn)

\* C2: Build reproduces the two fixed test vectors byte for byte:
\* {Read, 0x400F015B, []} gives 2B 01 04 40 0F 01 5B 58 B4 and
\* {Read, 0xDB2D69AE, []} gives 2B 01 04 DB 2D 2D 69 AE 55 AB.
C2_TestVectors ==
    /\ (cpc # "new" /\ dgIn = Datagram(Read, BatteryPowerW, <<>>))
          => Bytes(builder) = <<43, 1, 4, 64, 15, 1, 91, 88, 180>>
    /\ (cpc # "new" /\ dgIn = Datagram(Read, InverterACPowerW, <<>>))
          => Bytes(builder) = <<43, 1, 4, 219, 45, 45, 105, 174, 85, 171>>

\* the second test vector, the one with an escaped identifier byte, was built
C2_Witness ==
    cpc = "built" /\ dgIn = Datagram(Read, InverterACPowerW, <<>>)

\* the wire form the escaping rule prescribes for a run of logical bytes
RECURSIVE C3_Escaped(_)
C3_Escaped(bytes) ==
    IF bytes = <<>> THEN <<>>
    ELSE (IF Head(bytes) \in {START, ESCAPE} THEN <<ESCAPE, Head(bytes)>>
          ELSE <<Head(bytes)>>) \o C3_Escaped(Tail(bytes))

\* the checksum of a run of logical bytes, each folded in once
RECURSIVE C3_Checksum(_, _)
C3_Checksum(c, bytes) ==
    IF bytes = <<>> THEN CRC_Get(c)
    ELSE C3_Checksum(CRC_Update(c, Head(bytes)), Tail(bytes))

\* C3: every byte b written by WriteByte appears in the output preceded by
\* exactly one extra 0x2D if and only if b is 0x2B or 0x2D, and the checksum
\* is updated exactly once, with b itself; so the frame that Build produces
\* is the start marker, the escaped logical bytes and the checksum of the
\* logical bytes alone.
C3_EscapingRule ==
    [][ /\ \A b \in ByteValues :
              BuilderWriteByte(b) =>
                  /\ builder'.buffer =
                        builder.buffer \o (IF b = START \/ b = ESCAPE
                                           THEN <<ESCAPE, b>> ELSE <<b>>)
                  /\ builder'.crc = CRC_Update(builder.crc, b)
        /\ (cpc = "new" /\ cpc' = "built") =>
              LET logical == HeaderBytes(dgIn') \o dgIn'.Data
                  out     == Bytes(builder')
                  n       == Len(out)
                  sum     == C3_Checksum(NewCRC, logical)
              IN  /\ n >= 3
                  /\ SubSeq(out, 1, n - 2) = <<START>> \o C3_Escaped(logical)
                  /\ SubSeq(out, n - 1, n) = <<sum \div 256, sum % 256>>
      ]_vars

\* a frame was built in which at least one logical byte needed escaping
C3_Witness ==
    /\ cpc = "built"
    /\ \E i \in 1..Len(dgIn.Data) : dgIn.Data[i] \in {START, ESCAPE}
    /\ Len(Bytes(builder)) > 3 + Len(HeaderBytes(dgIn)) + Len(dgIn.Data)

\* C20: a datagram the parser returns without error carries one of the
\* nine defined command codes
C20_OnlyDefinedCommands ==
    (cpc = "parsed" /\ ~parsed.err) => parsed.dg.Cmd \in DefinedCommands

\* C22: in a frame produced by Build every byte after the start marker
\* whose value is 0x2B or 0x2D, the two checksum bytes included, is preceded
\* by the escape byte: the frame is the start marker followed by the escaped
\* form of header, payload and checksum
C22_EveryMarkerEscaped ==
    cpc # "new" =>
        LET logical == HeaderBytes(dgIn) \o dgIn.Data
            sum     == C3_Checksum(NewCRC, logical)
        IN  Bytes(builder) =
                <<START>> \o C3_Escaped(logical \o <<sum \div 256, sum % 256>>)

-----------------------------------------------------------------------------
(* The connection in use: tasks call Query, Send, Write and Receive, the    *)
(* device sends frames, the peer may go away and time passes.               *)

ConnNext ==
    \/ \E t \in Tasks, id \in QueryIds, dial1 \in BOOLEAN, dial2 \in BOOLEAN :
          QueryBegin(t, id, dial1, dial2)
    \/ \E t \in Tasks, n \in 0..Len(wire) : QueryReceive(t, n)
    \/ \E t \in Tasks, dial1 \in BOOLEAN, dial2 \in BOOLEAN :
          Send(t, SendDatagram, dial1, dial2)
    \/ \E t \in Tasks, id \in QueryIds, data \in WriteData,
          dial1 \in BOOLEAN, dial2 \in BOOLEAN :
          Connection_Write(t, id, data, dial1, dial2)
    \/ \E t \in Tasks, dial1 \in BOOLEAN : ReceiveBegin(t, dial1)
    \/ \E t \in Tasks, n \in 0..Len(wire) : ReceiveReturn(t, n)
    \/ \E f \in DeviceFrames : DeviceRespond(f)
    \/ BreakSocket
    \/ Tick

ConnInit ==
    CodecIdle /\ NewConnection /\ StreamNone /\ BrokerNone /\ CacheLogNone /\ AccessNone /\ LoopNone

SpecConn == ConnInit /\ [][ConnNext]_vars

\* the tasks run: a conn.Read that can return does return, and time passes;
\* nothing obliges the device to send
FairSpecConn ==
    /\ SpecConn
    /\ \A t \in Tasks : WF_vars(\E n \in 0..Len(wire) : QueryReceive(t, n))
    /\ \A t \in Tasks : WF_vars(\E n \in 0..Len(wire) : ReceiveReturn(t, n))
    /\ WF_vars(Tick)

-----------------------------------------------------------------------------
(* Properties of the connection                                             *)

\* the age of the cache entry of id, -1 when there is none
C7_Age(id) ==
    IF id \in DOMAIN cache.entries THEN now - cache.entries[id].ts ELSE -1

\* C7: a Query(id) that finds an entry for id younger than the timeout
\* returns that entry, hands nothing to send, dials nothing and writes
\* nothing; a Query(id) that finds an entry older than the timeout, or none,
\* hands exactly one frame to send, the encoded Read request for id, and no
\* frame other than that one reaches a socket
C7_CacheFreshness ==
    [][\A t \in Tasks, id \in QueryIds :
          (/\ io' # io /\ io'.op = "Query" /\ io'.task = t /\ io'.id = id
           /\ \E dial1 \in BOOLEAN, dial2 \in BOOLEAN :
                 QueryBegin(t, id, dial1, dial2)) =>
             /\ (C7_Age(id) >= 0 /\ C7_Age(id) < cache.timeout) =>
                   /\ io'.phase = "returned" /\ io'.err = "none"
                   /\ io'.dg = cache.entries[id].dg
                   /\ io'.sends = <<>> /\ io'.dials = 0 /\ io'.writes = <<>>
                   /\ conn' = conn /\ wire' = wire
             /\ (C7_Age(id) = -1 \/ C7_Age(id) > cache.timeout) =>
                   /\ io'.sends = <<ReadRequest(id)>>
                   /\ io'.writes \in {<<>>, <<ReadRequest(id)>>}
                   /\ (io'.err = "none" => io'.writes = <<ReadRequest(id)>>)
      ]_vars

\* a Query found its entry too old and has sent the Read request
C7_Witness ==
    /\ io.op = "Query" /\ io.phase = "blocked"
    /\ C7_Age(io.id) > cache.timeout
    /\ io.sends = <<ReadRequest(io.id)>> /\ io.writes = io.sends

\* C8: a Query(id) that returns without error returns a Response whose
\* identifier is id, and every cache entry is stored under the identifier
\* it carries
C8_QueryIdMatches ==
    /\ (io.op = "Query" /\ io.phase = "returned" /\ io.err = "none") =>
          (io.dg.Id = io.id /\ io.dg.Cmd = Response)
    /\ \A i \in DOMAIN cache.entries :
          cache.entries[i].dg.Id = i /\ cache.entries[i].dg.Cmd = Response

\* a Query has been refused an answer to the other identifier
C8_Witness ==
    /\ io.op = "Query" /\ io.phase = "returned" /\ io.err = "invalid"
    /\ io.writes # <<>>

\* C9: a Query blocked in conn.Read returns in the end
C9_QueryReturns ==
    \A t \in Tasks : (pc[t] = "qrecv") ~> (pc[t] = "idle")

C18_CacheHoldsResponses ==
    [][/\ \A i \in DOMAIN cache'.entries :
             /\ cache'.entries[i].dg.Cmd \in {Response, LongResponse}
             /\ cache'.entries[i].dg.Id = i
             /\ cache'.entries[i].dg \notin {p[1] : p \in RequestFrames}
       /\ (io' # io /\ io'.op = "Query" /\ io'.phase = "returned"
              /\ io'.err # "none") => cache' = cache
      ]_vars

\* a Query has ended in an error while the cache holds an entry
C18_Witness ==
    /\ io.op = "Query" /\ io.phase = "returned" /\ io.err \in {"invalid", "parse"}
    /\ DOMAIN cache.entries # {}

\* C19: the failure of the decoder (a frame with a checksum mismatch or
\* an invalid command code) is never the error a Query returns
C19_DecodeErrorsInvisible ==
    io.op = "Query" => io.err # "parse"

\* a task blocked in conn.Read, within Query or Receive
Blocked(t) == pc[t] \in {"qrecv", "rrecv"}

\* C25 (as the code has it): Send, Receive and Query hold the connection
\* mutex from entry to return, so a task blocked in a socket read holds the
\* mutex, and the mutex is held by no task that is not inside one of them
C25_MutexHeldAcrossIO ==
    /\ \A t \in Tasks : Blocked(t) => mu = t
    /\ mu # 0 => Blocked(mu)

\* a Query is blocked in conn.Read on a working socket, holding the mutex,
\* with nothing to read yet
C25_Witness ==
    \E t \in Tasks : pc[t] = "qrecv" /\ mu = t /\ conn = "live" /\ wire = <<>>

\* C25 (as stated): no task holds the mutex while it is blocked in a
\* socket dial, write or read
C25_NoLockAcrossIO ==
    \A t \in Tasks : Blocked(t) => mu # t

\* C26: the cache is read (Get, as a Query begins) and written (Put, as a
\* Query returns a response) only while no other task is inside a Query,
\* and after a Put the entry of the identifier is the response just
\* received, stamped with the time of the Put, the other entries unchanged
C26_CacheSerialized ==
    [][/\ (io' # io /\ io'.op = "Query" /\ pc[io'.task] = "idle")
            => \A u \in Tasks : pc[u] = "idle" /\ mu = 0
       /\ \A t \in Tasks :
             (pc[t] = "qrecv" /\ pc'[t] = "idle" /\ io'.err = "none")
                => /\ mu = t
                   /\ \A u \in Tasks \ {t} : pc[u] = "idle"
                   /\ io'.dg.Id \in DOMAIN cache'.entries
                   /\ cache'.entries[io'.dg.Id] = [dg |-> io'.dg, ts |-> now]
                   /\ \A i \in DOMAIN cache'.entries \ {io'.dg.Id} :
                         i \in DOMAIN cache.entries
                            /\ cache'.entries[i] = cache.entries[i]
       /\ cache' # cache => \E t \in Tasks : pc[t] = "qrecv" /\ pc'[t] = "idle"
      ]_vars

\* Queries of both tasks have put their responses in the cache, the one
\* that returned last a response received later than the other
C26_Witness ==
    /\ DOMAIN cache.entries = QueryIds
    /\ io.op = "Query" /\ io.task = 2 /\ io.err = "none" /\ io.writes # <<>>
    /\ \E i \in QueryIds : cache.entries[i].ts < cache.entries[io.id].ts

\* C32: a Query of the identifier that a Write has just written, called
\* after the Write has returned without error, does not return a datagram
\* that was in the cache before the Write: when it returns a datagram it
\* has sent its request and read the response after the Write
C32_WriteThenQueryConfirms ==
    [][(/\ io.op = "Write" /\ io.phase = "returned" /\ io.err = "none"
        /\ io'.op = "Query" /\ io'.id = io.id
        /\ io'.phase = "returned" /\ io'.err = "none")
       => io'.sends # <<>>]_vars

-----------------------------------------------------------------------------
(* The connection in use, Close included                                    *)

CloseNext ==
    \/ ConnNext
    \/ \E t \in Tasks : Close(t)
    \/ \E t \in Tasks : ReadClosed(t)

SpecClose == ConnInit /\ [][CloseNext]_vars

\* C24: the socket handle is assigned (dial, redial, close, clear) only
\* within an operation that holds the mutex, and no task has the socket it
\* is reading from closed or cleared by another task
C24_HandleUnderMutex ==
    [][/\ (conn' # conn /\ conn' # "dead") => HoldsMutex(io'.op)
       /\ \A t \in Tasks : pc'[t] \notin {"qfail", "rfail"}
      ]_vars

-----------------------------------------------------------------------------
(* The connection used by several tasks against a device that answers each *)
(* Read request with one matching Response frame and sends nothing else.   *)
(* The answer is in the socket before the Read of the Query returns; Read  *)
(* returns any number of the bytes that are there.                         *)

DeviceNext ==
    \/ \E t \in Tasks, id \in QueryIds, dial1 \in BOOLEAN, dial2 \in BOOLEAN :
          QueryBegin(t, id, dial1, dial2)
    \/ \E t \in Tasks : DeviceAnswer(t)
    \/ \E t \in Tasks, n \in 0..Len(wire) :
          io.phase = "answered" /\ QueryReceive(t, n)
    \/ \E t \in Tasks, dial1 \in BOOLEAN, dial2 \in BOOLEAN :
          Send(t, SendDatagram, dial1, dial2)
    \/ \E t \in Tasks, id \in QueryIds, data \in WriteData,
          dial1 \in BOOLEAN, dial2 \in BOOLEAN :
          Connection_Write(t, id, data, dial1, dial2)
    \/ \E t \in Tasks, dial1 \in BOOLEAN : ReceiveBegin(t, dial1)
    \/ \E t \in Tasks, n \in 0..Len(wire) : ReceiveReturn(t, n)
    \/ Tick

SpecDevice == ConnInit /\ [][DeviceNext]_vars

\* C31: the calls on one Connection are serialized on the socket: while a
\* Query is between the write of its request and the read of its response
\* no other task writes to or reads from the socket; and with a device
\* that answers each Read request with one matching Response frame, a
\* Query that returns a datagram read from the socket returns the answer
\* to its own request
C31_QueryGetsOwnResponse ==
    [][\A t \in Tasks :
          /\ (pc[t] = "qrecv" /\ (wire' # wire \/ io'.writes # io.writes))
                => (mu = t /\ io'.task = t)
          /\ (pc[t] = "qrecv" /\ pc'[t] = "idle" /\ io'.err = "none")
                => io'.dg = Datagram(Response, req[t], <<t>>)
      ]_vars

-----------------------------------------------------------------------------
(* The receive path fed a byte stream: [g1][frame of A][g2][frame of B],   *)
(* the frame of A with one bit flipped or not, read in chunks of any size. *)

Garbage == {<<>>, <<0>>, <<0, START>>, <<ESCAPE>>}

StreamFirst == {Datagram(Response, BatteryPowerW, <<1>>)}

StreamSecond ==
    {Datagram(Response, InverterACPowerW, <<1>>), Datagram(Read, <<2, 1, 1, 0>>, <<>>)}

Scenario(g1, A, flip, g2, B) ==
    [g1 |-> g1, A |-> A, flip |-> flip, g2 |-> g2, B |-> B,
     bytes |-> g1 \o Corrupt(Frame(A), flip) \o g2 \o Frame(B)]

\* the bytes of the frame that are neither the start marker nor the checksum
FlipPositions(A) == 2..(Len(Frame(A)) - 2)

Scenarios ==
    {Scenario(g1, A, <<0, 0>>, g2, B) :
        g1 \in Garbage, A \in StreamFirst, g2 \in Garbage, B \in StreamSecond}
    \cup UNION {{Scenario(<<>>, A, <<p, k>>, <<>>, B) :
                    p \in FlipPositions(A), k \in 0..7, B \in StreamSecond} :
                A \in StreamFirst}

StreamInit ==
    /\ CodecIdle
    /\ conn = "live"
    /\ cache = NewCache(CacheTimeout)
    /\ mu = 0
    /\ pc = [t \in Tasks |-> "idle"]
    /\ req = [t \in Tasks |-> ZeroId]
    /\ now = 0
    /\ io = IoNone
    /\ scn \in Scenarios
    /\ wire = scn.bytes
    /\ emitted = <<>>
    /\ BrokerNone
    /\ CacheLogNone /\ AccessNone /\ LoopNone

StreamNext ==
    \/ \E t \in Tasks, dial1 \in BOOLEAN : ReceiveBegin(t, dial1)
    \/ \E t \in Tasks, n \in 0..Len(wire) : ReceiveReturn(t, n)

SpecStream == StreamInit /\ [][StreamNext]_vars

\* the whole stream has been read
StreamDone ==
    scn # NoScenario /\ wire = <<>> /\ \A t \in Tasks : pc[t] = "idle"

\* what Receive returns for the stream read at once
OneRead(bytes) ==
    LET r == receive(bytes) IN IF r.err THEN <<>> ELSE <<r.dg>>

\* C4: once the stream [g1][A][g2][B] has been read, the datagrams returned
\* are A and B, in that order, and nothing else
C4_Resynchronization ==
    (StreamDone /\ scn.flip[1] = 0) => emitted = <<scn.A, scn.B>>

\* C5: when the frame of A with one bit flipped, followed by the frame of B,
\* is read at once, the only datagram returned is B
C5_ChecksumRejection ==
    [][(scn.flip[1] # 0 /\ wire = scn.bytes /\ wire' = <<>>) =>
          emitted' = <<scn.B>>]_vars

\* C6: the datagrams returned for a stream are those returned when the
\* stream is read at once, however the reads have split it
C6_ChunkIndependence ==
    StreamDone => emitted = OneRead(scn.bytes)

-----------------------------------------------------------------------------
(* The broker in use: two subscribers, one publisher.                       *)

BrokerInit == CodecIdle /\ NewConnection /\ StreamNone /\ BrokerNone /\ CacheLogNone /\ AccessNone /\ LoopNone

BrokerNext ==
    \/ \E q \in Queues : Subscribe(q)
    \/ \E q \in Queues : Unsubscribe(q)
    \/ \E q \in Queues, how \in {"matched", "timeout", "sendfail"} : QueryExit(q, how)
    \/ \E msg \in Msgs : Publish(msg)
    \/ \E q \in Queues : Take(q)
    \/ Cancel
    \/ BrokerDone
    \/ BrokerSubscribe
    \/ BrokerUnsubscribe
    \/ \E reached \in SUBSET Queues : BrokerPublish(reached)

SpecBroker == BrokerInit /\ [][BrokerNext]_vars

\* the select of Start chooses at random among the cases that are ready, so
\* a case that stays ready is taken in the end
FairSpecBroker == SpecBroker /\ WF_vars(BrokerDone)

-----------------------------------------------------------------------------
(* Properties of the broker                                                 *)

\* both request channels of the broker are empty: it has processed every
\* subscription and unsubscription handed to it
RequestsProcessed == subCh = <<>> /\ unsubCh = <<>>

C13_DeliveryUnderBackpressure ==
    [][(publishCh # <<>> /\ publishCh' = <<>>) =>
          /\ \A q \in Queues :
                queue'[q] = IF q \in subs /\ Len(queue[q]) < QueueCapacity
                            THEN Append(queue[q], Head(publishCh))
                            ELSE queue[q]
          /\ bpc' = "select"
      ]_vars

RECURSIVE C14_IsSubsequence(_, _)
C14_IsSubsequence(a, b) ==
    IF a = <<>> THEN TRUE
    ELSE IF b = <<>> THEN FALSE
    ELSE IF Head(a) = Head(b) THEN C14_IsSubsequence(Tail(a), Tail(b))
    ELSE C14_IsSubsequence(a, Tail(b))

\* C14: what a subscriber has taken from its queue, followed by what the
\* queue still holds, is a subsequence of the messages published, in the
\* order of the Publish calls
C14_SubscriberOrdering ==
    \A q \in Queues : C14_IsSubsequence(taken[q] \o queue[q], published)

\* a subscriber that missed the first message has taken two later ones
C14_Witness ==
    \E q \in Queues : Len(taken[q]) >= 2 /\ taken[q][1] > 1

\* C15: the loop never sends on or closes a closed queue, a closed queue is
\* never in the subscriber set, and once the requests are processed a queue
\* that was unsubscribed is out of the set and closed
C15_UnsubscribeSafety ==
    /\ bpc # "panic"
    /\ \A q \in subs : chState[q] # "closed"
    /\ \A q \in Queues :
          (cst[q] \notin {"new", "subscribed"} /\ RequestsProcessed)
              => (q \notin subs /\ chState[q] = "closed")

\* C30: a message published after Subscribe has returned is offered to the
\* queue of that subscriber when the loop handles it: unless the subscriber
\* has unsubscribed or the queue is full, the message is put at its end
C30_SubscribeRegisters ==
    [][(publishCh # <<>> /\ publishCh' = Tail(publishCh)) =>
          \A q \in Queues :
              (/\ q \in Head(pubSubs)
               /\ cst[q] = "subscribed"
               /\ Len(queue[q]) < QueueCapacity)
              => queue'[q] = Append(queue[q], Head(publishCh))
      ]_vars

\* C23: once the context is cancelled the loop of Start returns, whatever
\* requests are pending
C23_LoopTerminates == ctx ~> bpc = "done"

-----------------------------------------------------------------------------
(* The cache on its own: any datagram is Put, any identifier is looked up, *)
(* and time passes.                                                         *)

MaxPuts == 3

PutDatagrams ==
    {Datagram(Response, id, data) : id \in QueryIds, data \in {<<1>>, <<2>>}}
        \cup {Datagram(Read, BatteryPowerW, <<>>)}

\* c.Put(dg), logged with the time of the call
CachePut(dg) ==
    /\ Len(puts) < MaxPuts
    /\ cache' = Cache_Put(cache, dg, now)
    /\ puts' = Append(puts, [dg |-> dg, at |-> now])
    /\ UNCHANGED <<conn, mu, pc, req, now, wire, io, got>>
    /\ UNCHANGED <<codecVars, streamVars, brokerVars, accessVars, loopVars>>

\* c.Get(id)
CacheGet(id) ==
    /\ got' = [id |-> id, dg |-> Cache_Get(cache, id, now).dg,
               ok |-> Cache_Get(cache, id, now).ok]
    /\ UNCHANGED <<connVars, puts>>
    /\ UNCHANGED <<codecVars, streamVars, brokerVars, accessVars, loopVars>>

CacheInit ==
    CodecIdle /\ NewConnection /\ StreamNone /\ BrokerNone /\ CacheLogNone /\ AccessNone /\ LoopNone

CacheNext ==
    \/ \E dg \in PutDatagrams : CachePut(dg)
    \/ \E id \in QueryIds : CacheGet(id)
    \/ Tick

SpecCache == CacheInit /\ [][CacheNext]_vars

\* the Put calls made for identifier id, as positions of puts
PutsOf(id) == {k \in 1..Len(puts) : puts[k].dg.Id = id}

\* the last of them
LastPutOf(id) == puts[CHOOSE k \in PutsOf(id) : \A j \in PutsOf(id) : j <= k]

\* C16: a Get(id) made no later than the timeout after the most recent
\* Put for id returns exactly the datagram of that Put, and a Put changes
\* the entry of no identifier but its own
C16_LastWriteWins ==
    [][/\ (got' # got /\ PutsOf(got'.id) # {}
              /\ now - LastPutOf(got'.id).at <= cache.timeout)
          => (got'.ok /\ got'.dg = LastPutOf(got'.id).dg)
       /\ puts' # puts =>
             \A i \in DOMAIN cache.entries :
                 i # puts'[Len(puts')].dg.Id => cache'.entries[i] = cache.entries[i]
      ]_vars

\* a Get has returned the second datagram Put for its identifier, another
\* identifier being cached as well
C16_Witness ==
    /\ got.ok
    /\ Cardinality(PutsOf(got.id)) >= 2
    /\ got.dg = LastPutOf(got.id).dg
    /\ got.dg # puts[CHOOSE k \in PutsOf(got.id) : \A j \in PutsOf(got.id) : k <= j].dg
    /\ Cardinality(DOMAIN cache.entries) = 2

\* C17 (as the code has it): Get itself applies the timeout: it returns
\* the datagram last Put for the identifier exactly when that Put is no
\* older than the timeout, and otherwise the empty datagram and false;
\* the entry is never removed from the map
C17_GetAppliesTimeout ==
    [][/\ got' # got =>
             /\ got'.ok <=> (/\ PutsOf(got'.id) # {}
                             /\ now - LastPutOf(got'.id).at <= cache.timeout)
             /\ got'.ok => got'.dg = LastPutOf(got'.id).dg
             /\ ~got'.ok => got'.dg = ZeroDatagram
       /\ DOMAIN cache.entries \subseteq DOMAIN cache'.entries
      ]_vars

\* a Get has missed an entry that is in the map but older than the timeout
C17_Witness ==
    /\ ~got.ok
    /\ got.id \in DOMAIN cache.entries
    /\ now - cache.entries[got.id].ts > cache.timeout
    /\ LastPutOf(got.id).at = cache.entries[got.id].ts

\* C17 (as stated): once a datagram was Put for an identifier, Get returns
\* the last one stored however old it is
C17_NeverExpires ==
    [][(got' # got /\ PutsOf(got'.id) # {})
          => (got'.ok /\ got'.dg = LastPutOf(got'.id).dg)]_vars

-----------------------------------------------------------------------------
(* The typed accessors on their own: a datagram with any payload is read   *)
(* with any accessor, directly or as the result of a Query.                *)
(***************************************************************************)
MaxPayload == 5

PayloadBytes == {0, 1, 128, 255}

Payloads == SeqsUpTo(PayloadBytes, MaxPayload)

\* what Query may have returned: a response, or one of its errors
QueryResults ==
    {[dg |-> Datagram(Response, BatteryPowerW, d), err |-> NoError] : d \in Payloads}
        \cup {[dg |-> ZeroDatagram, err |-> e] : e \in {"invalid", "parse", "io"}}

Accessor(kind, d) ==
    CASE kind = "Float32" -> Datagram_Float32(d)
      [] kind = "Int32"   -> Datagram_Int32(d)
      [] kind = "Uint16"  -> Datagram_Uint16(d)
      [] kind = "Uint8"   -> Datagram_Uint8(d)

TypedQuery(kind, q) ==
    CASE kind = "Float32" -> QueryFloat32(q)
      [] kind = "Uint16"  -> QueryUint16(q)
      [] kind = "Uint8"   -> QueryUint8(q)

Access(kind, data) ==
    /\ acc = NoAccess
    /\ LET d == Datagram(Response, BatteryPowerW, data)
           r == Accessor(kind, d)
       IN  acc' = [kind |-> kind, via |-> "accessor",
                   q |-> [dg |-> d, err |-> NoError],
                   val |-> r.val, err |-> r.err]
    /\ UNCHANGED <<codecVars, connVars, streamVars, brokerVars, cacheLogVars, loopVars>>

QueryTyped(kind, q) ==
    /\ acc = NoAccess
    /\ LET r == TypedQuery(kind, q)
       IN  acc' = [kind |-> kind, via |-> "query", q |-> q,
                   val |-> r.val, err |-> r.err]
    /\ UNCHANGED <<codecVars, connVars, streamVars, brokerVars, cacheLogVars, loopVars>>

\* the caller is done with the result of the call
AccessDone ==
    /\ acc # NoAccess
    /\ acc' = NoAccess
    /\ UNCHANGED <<codecVars, connVars, streamVars, brokerVars, cacheLogVars, loopVars>>

AccessInit ==
    CodecIdle /\ NewConnection /\ StreamNone /\ BrokerNone /\ CacheLogNone /\ AccessNone /\ LoopNone

AccessNext ==
    \/ \E kind \in {"Float32", "Int32", "Uint16", "Uint8"}, data \in Payloads :
          Access(kind, data)
    \/ \E kind \in {"Float32", "Uint16", "Uint8"}, q \in QueryResults :
          QueryTyped(kind, q)
    \/ AccessDone

SpecAccess == AccessInit /\ [][AccessNext]_vars

-----------------------------------------------------------------------------
(* Properties of the typed accessors                                        *)
(***************************************************************************)
\* the payload length the type of an accessor has
WidthOf(kind) ==
    CASE kind \in {"Float32", "Int32"} -> 4
      [] kind = "Uint16" -> 2
      [] kind = "Uint8" -> 1

ZeroOf(kind) == IF kind = "Float32" THEN <<0, 0, 0>> ELSE <<0>>

\* C21: an accessor succeeds exactly when the payload has the length of its
\* type; for any other length it returns an error and the zero value; a
\* typed query returns the accessor's error, and the error of Query, as is
C21_AccessorsValidateLength ==
    acc # NoAccess =>
        IF acc.q.err # NoError
        THEN acc.err = acc.q.err /\ acc.val = ZeroOf(acc.kind)
        ELSE /\ acc.err = NoError <=> Len(acc.q.dg.Data) = WidthOf(acc.kind)
             /\ Len(acc.q.dg.Data) # WidthOf(acc.kind) =>
                    acc.err = InvalidDataLength /\ acc.val = ZeroOf(acc.kind)
             /\ acc.err = NoError =>
                    \/ acc.kind = "Float32" /\ acc.val = Float32frombits(acc.q.dg.Data)
                    \/ acc.kind = "Int32" /\ acc.val = Int32frombits(acc.q.dg.Data)
                    \/ acc.kind \in {"Uint16", "Uint8"} /\ Len(acc.val) = 1

\* a typed query has returned the length error of its accessor for a payload
\* one byte longer than the type
C21_Witness ==
    /\ acc.via = "query" /\ acc.kind = "Uint16"
    /\ Len(acc.q.dg.Data) = 3 /\ acc.err = InvalidDataLength

-----------------------------------------------------------------------------
(* The loop of Parse followed byte by byte over buffers made of a frame, cut *)
(* at any place, with a marker or another byte put in, and bytes after it.   *)
(***************************************************************************)
LoopFrames ==
    {Frame(Datagram(Response, BatteryPowerW, <<1>>)),
     Frame(Datagram(Response, BatteryPowerW, <<START>>))}

\* what is put in where the frame is cut
LoopInserts == {<<>>, <<START>>, <<ESCAPE, START>>, <<ESCAPE, ESCAPE>>, <<0>>}

\* what follows
LoopTails ==
    {<<>>, <<0>>, <<ESCAPE, START, 0>>} \cup LoopFrames

\* frames at the edges of the length byte: a Read request without payload
\* (length 4), and Response frames with 252 and 253 zero payload bytes as
\* Build writes them: the length byte byte(len(Data) + 4) is 0 and 1, and
\* the last two bytes are the checksum of the bytes between
EdgeLengthFrames ==
    {Frame(Datagram(Read, BatteryPowerW, <<>>)),
     <<START, Response, 0>> \o IdBytes(BatteryPowerW)
         \o [i \in 1..252 |-> 0] \o <<65, 8>>,
     <<START, Response, 1>> \o IdBytes(BatteryPowerW)
         \o [i \in 1..253 |-> 0] \o <<71, 240>>}

LoopBuffers ==
    UNION {{SubSeq(f, 1, k) \o ins \o SubSeq(f, k + 1, Len(f)) \o tail :
               k \in 0..Len(f), ins \in LoopInserts, tail \in LoopTails} :
           f \in LoopFrames}
        \cup EdgeLengthFrames

\* Parse is called on a buffer: the local variables are initialised
ParseCall(buffer) ==
    /\ pin = <<>>
    /\ buffer # <<>>
    /\ pin' = buffer
    /\ ps' = ParseStart
    /\ UNCHANGED <<codecVars, connVars, streamVars, brokerVars, cacheLogVars,
                   accessVars>>

\* one iteration of the loop: for _, b := range buffer
ParseIterate ==
    /\ pin # <<>>
    /\ ps' = ParseByte(ps, Head(pin))
    /\ pin' = Tail(pin)
    /\ UNCHANGED <<codecVars, connVars, streamVars, brokerVars, cacheLogVars,
                   accessVars>>

LoopInit ==
    CodecIdle /\ NewConnection /\ StreamNone /\ BrokerNone /\ CacheLogNone
        /\ AccessNone /\ LoopNone

LoopNext ==
    \/ \E buffer \in LoopBuffers : ParseCall(buffer)
    \/ ParseIterate

SpecLoop == LoopInit /\ [][LoopNext]_vars

-----------------------------------------------------------------------------
(* Properties of the loop of Parse                                          *)
(***************************************************************************)
\* this step is an iteration of the loop that reads byte b
Reads(b) == pin # <<>> /\ pin' = Tail(pin) /\ Head(pin) = b

\* C27: a byte 0x2B read with no escape pending moves the parser to
\* AwaitingCmd from whatever state it is in, Done and the checksum states
\* included, and changes nothing else: it is not taken as data and not
\* folded into the checksum
C27_StartAbandonsFrame ==
    [][(Reads(START) /\ ~ps.escaped)
          => ps' = [ps EXCEPT !.state = AwaitingCmd]
      ]_vars

\* an unescaped start marker has been read after a complete frame: the
\* parser has left Done for AwaitingCmd with the datagram still in hand
C27_Witness ==
    /\ ps.state = AwaitingCmd /\ ps.dg = Datagram(Response, BatteryPowerW, <<1>>)
    /\ ps.crcReceived # 0 /\ ps.crc.crc = ps.crcReceived

\* C28: a byte 0x2B read while an escape is pending never moves the parser
\* into AwaitingCmd, in any state: it is dispatched to the current state
C28_EscapedStartIsLiteral ==
    [][(Reads(START) /\ ps.escaped)
          => (ps'.state # AwaitingCmd /\ ps' = Dispatch([ps EXCEPT !.escaped = FALSE], START))
      ]_vars

C33_LengthIsEightBit ==
    [][LET \* this step dispatches the byte it reads to the state st: the
           \* byte is no unescaped marker
           Dispatches(st) ==
               /\ pin # <<>> /\ pin' = Tail(pin) /\ ps.state = st
               /\ ps.escaped \/ Head(pin) \notin {START, ESCAPE}
       IN  /\ Dispatches(AwaitingLen) =>
                 /\ ps'.state = AwaitingId0
                 /\ ps'.length = Head(pin)
                 /\ ps'.dataLength = (Head(pin) + 252) % 256
                 /\ Head(pin) = 4 => ps'.dataLength = 0
                 /\ Head(pin) < 4 => ps'.dataLength = 252 + Head(pin)
           /\ Dispatches(AwaitingId3) =>
                 ps'.state = IF ps.length = 4 THEN AwaitingCrc0 ELSE AwaitingData
           /\ Dispatches(AwaitingData) =>
                 ps'.state = IF (Len(ps'.dg.Data) + 4) % 256 = ps.length
                                /\ Len(ps'.dg.Data) >= ps.dataLength
                             THEN AwaitingCrc0 ELSE AwaitingData
           /\ ps'.state = Done => (Len(ps'.dg.Data) + 4) % 256 = ps'.length
      ]_vars

\* a frame with length byte 0 and 252 payload bytes has been parsed to the
\* end
C33_Witness ==
    /\ ps.state = Done /\ ps.length = 0 /\ ps.dataLength = 252
    /\ Len(ps.dg.Data) = 252 /\ pin = <<>>

=============================================================================
